---- MODULE Spec2Model ----
(***************************************************************************)
(* Recursive ray tracer of src/RayTracing.cpp: the triangle intersector,   *)
(* the shader/integrator `trace` and the render loop of `main`.            *)
(*                                                                         *)
(* Every `float` of the source is an IEEE-754 binary32 value here, and     *)
(* every arithmetic operator of the source is evaluated as the hardware    *)
(* evaluates it: one operation at a time, rounded to nearest-even, with    *)
(* signed zeros, subnormals, infinities and NaN.  A value is the triple    *)
(* <<s, e, m>> standing for (-1)^s * m * 2^e, with 2^23 <= m < 2^24 for a  *)
(* normal number, e = -149 for zero and subnormals, and e = 999 for        *)
(* infinity (m = 0) and NaN (m = 1).                                       *)
(*                                                                         *)
(* Sums of products are evaluated without fused multiply-add, as the       *)
(* baseline x86-64 build does.                                             *)
(*                                                                         *)
(* Intermediate values are passed on as operator parameters, one operator  *)
(* for each group of statements of the source.  An operator that uses an   *)
(* argument x_ more than once first binds its value to x:                  *)
(*     CHOOSE val \in {( body ) : x \in {x_}} : TRUE                       *)
(* is body with x standing for the value of x_, and in an action           *)
(* \E x \in {x_} : body is the same.  The argument is then evaluated once, *)
(* also where the body is evaluated for ENABLED.                           *)
(***************************************************************************)
EXTENDS Integers, Sequences, FiniteSets, TLC

VARIABLES triangles, stack, ev, pcMain, px, py, image, hist

vars == <<triangles, stack, ev, pcMain, px, py, image, hist>>

(***************************************************************************)
(* binary32 arithmetic                                                     *)
(***************************************************************************)
P2 == <<1, 2, 4, 8, 16, 32, 64, 128, 256, 512, 1024, 2048, 4096, 8192, 16384,
        32768, 65536, 131072, 262144, 524288, 1048576, 2097152, 4194304,
        8388608, 16777216, 33554432, 67108864, 134217728, 268435456,
        536870912, 1073741824>>

Pow2(k) == P2[k + 1]

BL4 == <<0, 1, 2, 2, 3, 3, 3, 3, 4, 4, 4, 4, 4, 4, 4, 4>>

BL8(n_, b_) ==
  CHOOSE val \in {(
      IF n < 16 THEN b + BL4[n + 1] ELSE b + 4 + BL4[(n \div 16) + 1]
    ) : n \in {n_}, b \in {b_}} : TRUE

BL16(n_, b_) ==
  CHOOSE val \in {(
      BL8(IF n < 256 THEN n ELSE n \div 256, IF n < 256 THEN b ELSE b + 8)
    ) : n \in {n_}, b \in {b_}} : TRUE

\* number of significant bits of n, 0 <= n < 2^31
BitLen(n_) ==
  CHOOSE val \in {(
      BL16(IF n < 65536 THEN n ELSE n \div 65536, IF n < 65536 THEN 0 ELSE 16)
    ) : n \in {n_}} : TRUE

Fl(s, e, m) == <<s, e, m>>

NaN == <<0, 999, 1>>

Inf(s) == <<s, 999, 0>>

Zero(s) == <<s, -149, 0>>

IsNaN(a_) ==
  CHOOSE val \in {(
      a[2] = 999 /\ a[3] # 0
    ) : a \in {a_}} : TRUE

IsInf(a_) ==
  CHOOSE val \in {(
      a[2] = 999 /\ a[3] = 0
    ) : a \in {a_}} : TRUE

IsZero(a_) ==
  CHOOSE val \in {(
      a[2] # 999 /\ a[3] = 0
    ) : a \in {a_}} : TRUE

\* the rounded significand q (q <= 2^24) at exponent e: a carry out of the
\* 24 bits renormalises, an exponent above 104 overflows to infinity
Pack(s_, e_, q_) ==
  CHOOSE val \in {(
      IF q = 0 THEN Zero(s)
      ELSE IF q = 16777216
           THEN (IF e + 1 > 104 THEN Inf(s) ELSE Fl(s, e + 1, 8388608))
      ELSE IF e > 104 THEN Inf(s)
      ELSE Fl(s, e, q)
    ) : s \in {s_}, e \in {e_}, q \in {q_}} : TRUE

\* round to nearest, ties to even: q is the kept part, r the discarded part,
\* half the weight of half a unit of q, st a non-zero fraction below r
RoundUp(q_, r_, half_, st) ==
  CHOOSE val \in {(
      IF r > half \/ (r = half /\ (st \/ q % 2 = 1)) THEN q + 1 ELSE q
    ) : q \in {q_}, r \in {r_}, half \in {half_}} : TRUE

RoundShift(s_, M_, E_, st, sh_) ==
  CHOOSE val \in {(
      IF sh <= 0 THEN Fl(s, E + sh, M * Pow2(-sh))
      ELSE IF sh > 30 THEN Zero(s)
      ELSE Pack(s, E + sh,
                RoundUp(M \div Pow2(sh), M % Pow2(sh), Pow2(sh - 1), st))
    ) : s \in {s_}, M \in {M_}, E \in {E_}, sh \in {sh_}} : TRUE

\* the right shift that leaves 24 bits of an L-bit number, or more where the
\* result is subnormal
ShiftFor(L_, E_) ==
  CHOOSE val \in {(
      IF E + (L - 24) < -149 THEN -149 - E ELSE L - 24
    ) : L \in {L_}, E \in {E_}} : TRUE

\* (-1)^s * (M + f) * 2^E rounded to float; st says that the discarded
\* fraction f is non-zero (0 < f < 1).  0 <= M < 2^30.
Round(s_, M_, E_, st) ==
  CHOOSE val \in {(
      IF M = 0 THEN Zero(s) ELSE RoundShift(s, M, E, st, ShiftFor(BitLen(M), E))
    ) : s \in {s_}, M \in {M_}, E \in {E_}} : TRUE

NormBy(a_, k_) ==
  CHOOSE val \in {(
      Fl(a[1], a[2] - k, a[3] * Pow2(k))
    ) : a \in {a_}, k \in {k_}} : TRUE

\* a finite non-zero value with its significand shifted up to 24 bits
Norm(a_) ==
  CHOOSE val \in {(
      IF a[3] >= 8388608 THEN a ELSE NormBy(a, 24 - BitLen(a[3]))
    ) : a \in {a_}} : TRUE

\* unary minus
FNeg(a_) ==
  CHOOSE val \in {(
      IF IsNaN(a) THEN a ELSE Fl(1 - a[1], a[2], a[3])
    ) : a \in {a_}} : TRUE

\* fabs
FAbs(a_) ==
  CHOOSE val \in {(
      IF IsNaN(a) THEN a ELSE Fl(0, a[2], a[3])
    ) : a \in {a_}} : TRUE

AddSigned(a_, b, st, D_) ==
  CHOOSE val \in {(
      IF D = 0 THEN Zero(0)
      ELSE Round(IF D > 0 THEN a[1] ELSE b[1], IF D > 0 THEN D ELSE -D,
                 a[2] - 3, st)
    ) : a \in {a_}, D \in {D_}} : TRUE

\* B, st: the significand of b aligned to that of a, and its lost fraction
AddAligned(a_, b_, B_, st_) ==
  CHOOSE val \in {(
      AddSigned(a, b, st,
                IF a[1] = b[1] THEN a[3] * 8 + B
                ELSE a[3] * 8 - B - (IF st THEN 1 ELSE 0))
    ) : a \in {a_}, b \in {b_}, B \in {B_}, st \in {st_}} : TRUE

\* a + b for finite non-zero a, b with a[2] >= b[2]: three guard bits and a
\* sticky bit
AddFinite(a, b_, d_) ==
  CHOOSE val \in {(
      AddAligned(a, b,
                 IF d > 27 THEN 0 ELSE (b[3] * 8) \div Pow2(d),
                 IF d > 27 THEN TRUE ELSE (b[3] * 8) % Pow2(d) # 0)
    ) : b \in {b_}, d \in {d_}} : TRUE

\* float + float
FAdd(a_, b_) ==
  CHOOSE val \in {(
      IF IsNaN(a) \/ IsNaN(b) THEN NaN
      ELSE IF IsInf(a) THEN (IF IsInf(b) /\ a[1] # b[1] THEN NaN ELSE a)
      ELSE IF IsInf(b) THEN b
      ELSE IF a[3] = 0 /\ b[3] = 0 THEN Zero(IF a[1] = 1 /\ b[1] = 1 THEN 1 ELSE 0)
      ELSE IF a[3] = 0 THEN b
      ELSE IF b[3] = 0 THEN a
      ELSE AddFinite(IF a[2] >= b[2] THEN a ELSE b, IF a[2] >= b[2] THEN b ELSE a,
                     IF a[2] >= b[2] THEN a[2] - b[2] ELSE b[2] - a[2])
    ) : a \in {a_}, b \in {b_}} : TRUE

\* float - float
FSub(a, b) == FAdd(a, FNeg(b))

SX(a, b) == IF a = b THEN 0 ELSE 1

\* hh, X, lo: the 48-bit product as hh * 2^24 + X * 2^12 + lo
MulSum(s, e, hh, X_, lo) ==
  CHOOSE val \in {(
      Round(s, hh * 16 + (X \div 256), e, X % 256 # 0 \/ lo # 0)
    ) : X \in {X_}} : TRUE

MulParts(s, e, ah_, al_, bh_, bl_) ==
  CHOOSE val \in {(
      MulSum(s, e, ah * bh, ah * bl + al * bh + ((al * bl) \div 4096),
             (al * bl) % 4096)
    ) : ah \in {ah_}, al \in {al_}, bh \in {bh_}, bl \in {bl_}} : TRUE

MulNorm(s, x_, y_) ==
  CHOOSE val \in {(
      MulParts(s, x[2] + y[2] + 20, x[3] \div 4096, x[3] % 4096,
               y[3] \div 4096, y[3] % 4096)
    ) : x \in {x_}, y \in {y_}} : TRUE

\* float * float: the product of the significands from their 12-bit halves
FMul(a_, b_) ==
  CHOOSE val \in {(
      IF IsNaN(a) \/ IsNaN(b) THEN NaN
      ELSE IF IsInf(a) \/ IsInf(b)
           THEN (IF IsZero(a) \/ IsZero(b) THEN NaN ELSE Inf(SX(a[1], b[1])))
      ELSE IF a[3] = 0 \/ b[3] = 0 THEN Zero(SX(a[1], b[1]))
      ELSE MulNorm(SX(a[1], b[1]), Norm(a), Norm(b))
    ) : a \in {a_}, b \in {b_}} : TRUE

\* long division, seven quotient bits a step
RECURSIVE DivDigits(_, _, _, _)
DivDigits(q_, r_, y_, n_) ==
  CHOOSE val \in {(
      IF n = 0 THEN <<q, r>>
      ELSE DivDigits(q * 128 + ((r * 128) \div y), (r * 128) % y, y, n - 1)
    ) : q \in {q_}, r \in {r_}, y \in {y_}, n \in {n_}} : TRUE

DivRound(s, e, qr_) ==
  CHOOSE val \in {(
      Round(s, qr[1], e, qr[2] # 0)
    ) : qr \in {qr_}} : TRUE

DivNorm(s, x_, y_) ==
  CHOOSE val \in {(
      DivRound(s, x[2] - y[2] - 28, DivDigits(x[3] \div y[3], x[3] % y[3], y[3], 4))
    ) : x \in {x_}, y \in {y_}} : TRUE

\* float / float
FDiv(a_, b_) ==
  CHOOSE val \in {(
      IF IsNaN(a) \/ IsNaN(b) THEN NaN
      ELSE IF IsInf(a) THEN (IF IsInf(b) THEN NaN ELSE Inf(SX(a[1], b[1])))
      ELSE IF IsInf(b) THEN Zero(SX(a[1], b[1]))
      ELSE IF b[3] = 0 THEN (IF a[3] = 0 THEN NaN ELSE Inf(SX(a[1], b[1])))
      ELSE IF a[3] = 0 THEN Zero(SX(a[1], b[1]))
      ELSE DivNorm(SX(a[1], b[1]), Norm(a), Norm(b))
    ) : a \in {a_}, b \in {b_}} : TRUE

\* One step of the digit recurrence of the integer square root, taking c
\* root bits at a time: s = <<root, rem>> with rem = N - root^2, bits the
\* next 2c bits of the radicand.  The new digit d is the largest one with
\* (2^(c+1) * root + d) * d <= t; it is est or just below.
SqrtDigit(root_, t_, c_, est_) ==
  CHOOSE val \in {(
      CHOOSE d \in (est - 3)..est :
        /\ d >= 0
        /\ (Pow2(c + 1) * root + d) * d <= t
        /\ d = Pow2(c) - 1 \/ (Pow2(c + 1) * root + d + 1) * (d + 1) > t
    ) : root \in {root_}, t \in {t_}, c \in {c_}, est \in {est_}} : TRUE

SqrtTake(root_, t, c_, d_) ==
  CHOOSE val \in {(
      <<root * Pow2(c) + d, t - (Pow2(c + 1) * root + d) * d>>
    ) : root \in {root_}, c \in {c_}, d \in {d_}} : TRUE

SqrtEst(root_, t_, c_, q_) ==
  CHOOSE val \in {(
      SqrtTake(root, t, c,
               SqrtDigit(root, t, c, IF q > Pow2(c) - 1 THEN Pow2(c) - 1 ELSE q))
    ) : root \in {root_}, t \in {t_}, c \in {c_}, q \in {q_}} : TRUE

SqrtChunk(root_, t_, c_) ==
  CHOOSE val \in {(
      SqrtEst(root, t, c, t \div (Pow2(c + 1) * root))
    ) : root \in {root_}, t \in {t_}, c \in {c_}} : TRUE

SqrtStep(s_, bits, c_) ==
  CHOOSE val \in {(
      SqrtChunk(s[1], s[2] * Pow2(2 * c) + bits, c)
    ) : s \in {s_}, c \in {c_}} : TRUE

\* the first 5 root bits, from the leading bits h of the radicand, 128 <= h < 512
SqrtFirst(h_) ==
  CHOOSE val \in {(
      SqrtTake(0, h, 0, CHOOSE r \in 11..22 : r * r <= h /\ (r + 1) * (r + 1) > h)
    ) : h \in {h_}} : TRUE

\* <<root, rem>> of the integer square root of m * 2^28, 2^23 <= m < 2^25:
\* 13 root bits from m, 14 more from the zeros below it
SqrtBits(m_) ==
  CHOOSE val \in {(
      SqrtStep(
        SqrtStep(
          SqrtStep(
            SqrtStep(
              SqrtStep(
                SqrtStep(SqrtFirst(m \div 65536), (m \div 256) % 256, 4),
                m % 256, 4),
              0, 7),
            0, 4),
          0, 2),
        0, 1)
    ) : m \in {m_}} : TRUE

SqrtRound(e, rr_) ==
  CHOOSE val \in {(
      Round(0, rr[1], e, rr[2] # 0)
    ) : rr \in {rr_}} : TRUE

SqrtNorm(x_) ==
  CHOOSE val \in {(
      SqrtRound(((IF x[2] % 2 # 0 THEN x[2] - 1 ELSE x[2]) \div 2) - 14,
                SqrtBits(IF x[2] % 2 # 0 THEN x[3] * 2 ELSE x[3]))
    ) : x \in {x_}} : TRUE

\* std::sqrt(float)
FSqrt(a_) ==
  CHOOSE val \in {(
      IF IsNaN(a) THEN NaN
      ELSE IF IsZero(a) THEN a
      ELSE IF a[1] = 1 THEN NaN
      ELSE IF IsInf(a) THEN a
      ELSE SqrtNorm(Norm(a))
    ) : a \in {a_}} : TRUE

MagLt(a_, b_) ==
  CHOOSE val \in {(
      a[2] < b[2] \/ (a[2] = b[2] /\ a[3] < b[3])
    ) : a \in {a_}, b \in {b_}} : TRUE

\* a < b; every comparison with a NaN is false, and -0 = +0
FLt(a_, b_) ==
  CHOOSE val \in {(
      IF IsNaN(a) \/ IsNaN(b) THEN FALSE
      ELSE IF IsZero(a) /\ IsZero(b) THEN FALSE
      ELSE IF a[1] # b[1] THEN a[1] = 1
      ELSE IF a[1] = 0 THEN MagLt(a, b) ELSE MagLt(b, a)
    ) : a \in {a_}, b \in {b_}} : TRUE

\* a > b
FGt(a, b) == FLt(b, a)

\* a == b
FEq(a_, b_) ==
  CHOOSE val \in {(
      IF IsNaN(a) \/ IsNaN(b) THEN FALSE
      ELSE IF IsZero(a) /\ IsZero(b) THEN TRUE
      ELSE a = b
    ) : a \in {a_}, b \in {b_}} : TRUE

\* a <= b
FLe(a_, b_) ==
  CHOOSE val \in {(
      FLt(a, b) \/ FEq(a, b)
    ) : a \in {a_}, b \in {b_}} : TRUE

\* conversion of an int to float
FromInt(n_) ==
  CHOOSE val \in {(
      Round(IF n < 0 THEN 1 ELSE 0, IF n < 0 THEN -n ELSE n, 0, FALSE)
    ) : n \in {n_}} : TRUE

\* std::max(a, b) of <algorithm>: (a < b) ? b : a
FMax(a_, b_) ==
  CHOOSE val \in {(
      IF FLt(a, b) THEN b ELSE a
    ) : a \in {a_}, b \in {b_}} : TRUE

\* the floats -6.0f, -5.0f, ..., 10.0f
SmallInts ==
  << <<1, -21, 12582912>>, <<1, -21, 10485760>>, <<1, -21, 8388608>>,
     <<1, -22, 12582912>>, <<1, -22, 8388608>>, <<1, -23, 8388608>>,
     <<0, -149, 0>>, <<0, -23, 8388608>>, <<0, -22, 8388608>>,
     <<0, -22, 12582912>>, <<0, -21, 8388608>>, <<0, -21, 10485760>>,
     <<0, -21, 12582912>>, <<0, -21, 14680064>>, <<0, -20, 8388608>>,
     <<0, -20, 9437184>>, <<0, -20, 10485760>> >>

\* an int literal -6 .. 10 used as a float
I(n) == SmallInts[n + 7]

\* the float literals 0.0f, 0.1f, 0.2f, ..., 1.0f
Tenths ==
  << <<0, -149, 0>>, <<0, -27, 13421773>>, <<0, -26, 13421773>>,
     <<0, -25, 10066330>>, <<0, -25, 13421773>>, <<0, -24, 8388608>>,
     <<0, -24, 10066330>>, <<0, -24, 11744051>>, <<0, -24, 13421773>>,
     <<0, -24, 15099494>>, <<0, -23, 8388608>> >>

\* the float literal 0.k
T(k) == Tenths[k + 1]

F0 == <<0, -149, 0>>

F1 == <<0, -23, 8388608>>

(***************************************************************************)
(* Vector3 and the vector functions                                        *)
(***************************************************************************)
Vector3(x, y, z) == [x |-> x, y |-> y, z |-> z]

\* Vector3 with int arguments, as in Vector3(2, 5, 1)
IVec(x, y, z) == Vector3(I(x), I(y), I(z))

\* the double literal 1e-8 of operator/ and normalize lies strictly between
\* two adjacent floats; Tiny = 9.99999993922529e-09 is the lower one, so for
\* a float x:  x < 1e-8 iff x <= Tiny,  x > 1e-8 iff x > Tiny
Tiny == <<0, -50, 11258999>>

\* operator+
VAdd(a_, b_) ==
  CHOOSE val \in {(
      Vector3(FAdd(a.x, b.x), FAdd(a.y, b.y), FAdd(a.z, b.z))
    ) : a \in {a_}, b \in {b_}} : TRUE

\* binary operator-
VSub(a_, b_) ==
  CHOOSE val \in {(
      Vector3(FSub(a.x, b.x), FSub(a.y, b.y), FSub(a.z, b.z))
    ) : a \in {a_}, b \in {b_}} : TRUE

\* operator*(float)
VScale(a_, s_) ==
  CHOOSE val \in {(
      Vector3(FMul(a.x, s), FMul(a.y, s), FMul(a.z, s))
    ) : a \in {a_}, s \in {s_}} : TRUE

\* operator/(float)
VDiv(a_, s_) ==
  CHOOSE val \in {(
      IF FLe(FAbs(s), Tiny) THEN a
      ELSE Vector3(FDiv(a.x, s), FDiv(a.y, s), FDiv(a.z, s))
    ) : a \in {a_}, s \in {s_}} : TRUE

\* unary operator-
VNeg(a_) ==
  CHOOSE val \in {(
      Vector3(FNeg(a.x), FNeg(a.y), FNeg(a.z))
    ) : a \in {a_}} : TRUE

dot(a_, b_) ==
  CHOOSE val \in {(
      FAdd(FAdd(FMul(a.x, b.x), FMul(a.y, b.y)), FMul(a.z, b.z))
    ) : a \in {a_}, b \in {b_}} : TRUE

length(v_) ==
  CHOOSE val \in {(
      FSqrt(dot(v, v))
    ) : v \in {v_}} : TRUE

NormalizeLen(v_, len_) ==
  CHOOSE val \in {(
      IF FGt(len, Tiny) THEN VDiv(v, len) ELSE v
    ) : v \in {v_}, len \in {len_}} : TRUE

normalize(v_) ==
  CHOOSE val \in {(
      NormalizeLen(v, length(v))
    ) : v \in {v_}} : TRUE

cross(a_, b_) ==
  CHOOSE val \in {(
      Vector3(FSub(FMul(a.y, b.z), FMul(a.z, b.y)),
              FSub(FMul(a.z, b.x), FMul(a.x, b.z)),
              FSub(FMul(a.x, b.y), FMul(a.y, b.x)))
    ) : a \in {a_}, b \in {b_}} : TRUE

reflect(incident_, normal_) ==
  CHOOSE val \in {(
      VSub(incident, VScale(normal, FMul(I(2), dot(incident, normal))))
    ) : incident \in {incident_}, normal \in {normal_}} : TRUE

Ray(o, d) == [origin |-> o, direction |-> d]

pointAt(ray_, t) ==
  CHOOSE val \in {(
      VAdd(ray.origin, VScale(ray.direction, t))
    ) : ray \in {ray_}} : TRUE

Triangle(a, b, c, col, ds) ==
  [v0 |-> a, v1 |-> b, v2 |-> c, color |-> col, doubleSided |-> ds]

FLT_MAX == <<0, 104, 16777215>>

\* HitRecord(): the triangle pointer is the index of the triangle in the
\* scene vector, 0 for nullptr
HitRecord ==
  [position |-> IVec(0, 0, 0), normal |-> IVec(0, 0, 0),
   distance |-> FLT_MAX, triangle |-> 0]

\* 1e-5f = 9.9999997473787516e-06
EPSILON == <<0, -40, 10995116>>

(***************************************************************************)
(* intersectTriangle(tri, ray, hit), tri = scene[k].  The result holds the *)
(* returned bool (ret), the HitRecord as the call leaves it (hit), the     *)
(* return statement taken (exit) and the locals a, u, v, t as far as they  *)
(* were computed (zero otherwise).                                         *)
(***************************************************************************)
IsectOut(r, h, ex, a, u, v, t) ==
  [ret |-> r, hit |-> h, exit |-> ex, a |-> a, u |-> u, v |-> v, t |-> t]

\* a hit normal that is never turned toward the ray
HitNormalGeometric(tri, ray, n0) == n0

\* lines 123-126: n0 is normalize(cross(edge1, edge2))
HitNormal(tri, ray, n0_) ==
  CHOOSE val \in {(
      IF tri.doubleSided /\ FGt(dot(n0, ray.direction), F0) THEN VNeg(n0) ELSE n0
    ) : n0 \in {n0_}} : TRUE

\* lines 119-129
IsectHit(tri, k, ray_, a, u, v, t_, n0) ==
  CHOOSE val \in {(
      IsectOut(TRUE,
               [position |-> pointAt(ray, t),
                normal   |-> HitNormal(tri, ray, n0),
                distance |-> t,
                triangle |-> k],
               "hit", a, u, v, t)
    ) : ray \in {ray_}, t \in {t_}} : TRUE

\* a distance test without the lower bound
AcceptsBehind(t, hit) == FLt(t, hit.distance)

\* line 118
Accepts(t_, hit) ==
  CHOOSE val \in {(
      FGt(t, EPSILON) /\ FLt(t, hit.distance)
    ) : t \in {t_}} : TRUE

\* lines 118-132
IsectT(tri, k, ray, hit_, edge1, edge2, a_, u_, v_, t_) ==
  CHOOSE val \in {(
      IF Accepts(t, hit)
      THEN IsectHit(tri, k, ray, a, u, v, t, normalize(cross(edge1, edge2)))
      ELSE IsectOut(FALSE, hit, "t", a, u, v, t)
    ) : hit \in {hit_}, a \in {a_}, u \in {u_}, v \in {v_}, t \in {t_}} : TRUE

\* lines 114-117
IsectV(tri, k, ray, hit_, edge1, edge2_, a_, f, q, u_, v_) ==
  CHOOSE val \in {(
      IF FLt(v, F0) \/ FGt(FAdd(u, v), F1)
      THEN IsectOut(FALSE, hit, "v", a, u, v, F0)
      ELSE IsectT(tri, k, ray, hit, edge1, edge2, a, u, v, FMul(f, dot(edge2, q)))
    ) : hit \in {hit_}, edge2 \in {edge2_}, a \in {a_}, u \in {u_}, v \in {v_}} : TRUE

\* line 112
IsectQ(tri, k, ray_, hit, edge1, edge2, a, f_, u, q_) ==
  CHOOSE val \in {(
      IsectV(tri, k, ray, hit, edge1, edge2, a, f, q, u,
             FMul(f, dot(ray.direction, q)))
    ) : ray \in {ray_}, f \in {f_}, q \in {q_}} : TRUE

\* lines 108-111
IsectU(tri, k, ray, hit_, edge1_, edge2, a_, f, s, u_) ==
  CHOOSE val \in {(
      IF FLt(u, F0) \/ FGt(u, F1)
      THEN IsectOut(FALSE, hit, "u", a, u, F0, F0)
      ELSE IsectQ(tri, k, ray, hit, edge1, edge2, a, f, u, cross(s, edge1))
    ) : hit \in {hit_}, edge1 \in {edge1_}, a \in {a_}, u \in {u_}} : TRUE

\* line 106
IsectF(tri, k, ray, hit, edge1, edge2, h, a, f_, s_) ==
  CHOOSE val \in {(
      IsectU(tri, k, ray, hit, edge1, edge2, a, f, s, FMul(f, dot(s, h)))
    ) : f \in {f_}, s \in {s_}} : TRUE

\* lines 100-105
IsectA(tri_, k, ray_, hit_, edge1, edge2, h, a_) ==
  CHOOSE val \in {(
      IF ~tri.doubleSided /\ FLt(a, EPSILON) /\ FGt(a, FNeg(EPSILON))
      THEN IsectOut(FALSE, hit, "cull", a, F0, F0, F0)
      ELSE IsectF(tri, k, ray, hit, edge1, edge2, h, a, FDiv(F1, a),
                  VSub(ray.origin, tri.v0))
    ) : tri \in {tri_}, ray \in {ray_}, hit \in {hit_}, a \in {a_}} : TRUE

\* line 98
IsectH(tri, k, ray, hit, edge1_, edge2, h_) ==
  CHOOSE val \in {(
      IsectA(tri, k, ray, hit, edge1, edge2, h, dot(edge1, h))
    ) : edge1 \in {edge1_}, h \in {h_}} : TRUE

\* line 97
IsectEdges(tri, k, ray_, hit, edge1, edge2_) ==
  CHOOSE val \in {(
      IsectH(tri, k, ray, hit, edge1, edge2, cross(ray.direction, edge2))
    ) : ray \in {ray_}, edge2 \in {edge2_}} : TRUE

\* lines 94-96
intersectTriangle(scene_, k_, ray, hit) ==
  CHOOSE val \in {(
      IsectEdges(scene[k], k, ray, hit, VSub(scene[k].v1, scene[k].v0),
                 VSub(scene[k].v2, scene[k].v0))
    ) : scene \in {scene_}, k \in {k_}} : TRUE

(***************************************************************************)
(* double arithmetic.  Where the source computes in double (std::pow of    *)
(* line 168, the pixel coordinates of lines 209-210) the value is a        *)
(* natural number, written as a sequence of base-4096 digits with the most *)
(* significant digit first, times a power of two; a result is rounded to   *)
(* the 53 bits of a double after every operation, as the hardware does,    *)
(* and to float where the source assigns it to a float.                    *)
(***************************************************************************)
\* a without its leading zero digits
Strip(a_) ==
  CHOOSE val \in {(
      IF \A i \in 1..Len(a) : a[i] = 0 THEN <<0>>
      ELSE SubSeq(a, CHOOSE i \in 1..Len(a) :
                       a[i] # 0 /\ \A j \in 1..(i - 1) : a[j] = 0, Len(a))
    ) : a \in {a_}} : TRUE

\* the digits of a float's significand
FloatDigits(f_) ==
  CHOOSE val \in {(
      Strip(<<f[3] \div 4096, f[3] % 4096>>)
    ) : f \in {f_}} : TRUE

\* the digits of n, 0 <= n < 2^24
IntDigits(n_) ==
  CHOOSE val \in {(
      Strip(<<n \div 4096, n % 4096>>)
    ) : n \in {n_}} : TRUE

\* n zero digits, n <= 12
Zeros(n) == SubSeq(<<0, 0, 0, 0, 0, 0, 0, 0, 0, 0, 0, 0>>, 1, n)

\* sum of a[i] * b[k - i] for i = i .. hi
RECURSIVE Column(_, _, _, _, _)
Column(a_, b_, k_, i_, hi_) ==
  CHOOSE val \in {(
      IF i > hi THEN 0 ELSE a[i] * b[k - i] + Column(a, b, k, i + 1, hi)
    ) : a \in {a_}, b \in {b_}, k \in {k_}, i \in {i_}, hi \in {hi_}} : TRUE

\* the column sums of a * b: column k holds the products a[i] * b[j] with
\* i + j = k and weighs 4096^(Len(a) + Len(b) - k); each is below 2^28
ColumnSums(a_, b_) ==
  CHOOSE val \in {(
      SubSeq([k \in 1..(Len(a) + Len(b)) |->
                IF k < 2 THEN 0
                ELSE Column(a, b, k,
                            IF k - Len(b) > 1 THEN k - Len(b) ELSE 1,
                            IF k - 1 < Len(a) THEN k - 1 ELSE Len(a))],
             1, Len(a) + Len(b))
    ) : a \in {a_}, b \in {b_}} : TRUE

\* the three base-4096 digits of every column sum added to their columns:
\* entries up to 2 * 4095 + 15
SpreadSums(s_) ==
  CHOOSE val \in {(
      SubSeq([k \in 1..Len(s) |->
                (s[k] % 4096)
                  + (IF k + 1 <= Len(s) THEN (s[k + 1] \div 4096) % 4096 ELSE 0)
                  + (IF k + 2 <= Len(s) THEN s[k + 2] \div 16777216 ELSE 0)],
             1, Len(s))
    ) : s \in {s_}} : TRUE

\* the carries of the entries added to the next column: entries up to 4097
SpreadCarries(t_) ==
  CHOOSE val \in {(
      SubSeq([k \in 1..Len(t) |->
                (t[k] % 4096) + (IF k + 1 <= Len(t) THEN t[k + 1] \div 4096 ELSE 0)],
             1, Len(t))
    ) : t \in {t_}} : TRUE

\* a carry enters column k: a column below it overflows and every column
\* between the two is full
CarryInto(u_, k_) ==
  CHOOSE val \in {(
      \E j \in (k + 1)..Len(u) :
        u[j] >= 4096 /\ \A i \in (k + 1)..(j - 1) : u[i] = 4095
    ) : u \in {u_}, k \in {k_}} : TRUE

Carried(u_) ==
  CHOOSE val \in {(
      SubSeq([k \in 1..Len(u) |->
                (u[k] + (IF CarryInto(u, k) THEN 1 ELSE 0)) % 4096],
             1, Len(u))
    ) : u \in {u_}} : TRUE

\* the digits of a * b
MulDigits(a, b) == Strip(Carried(SpreadCarries(SpreadSums(ColumnSums(a, b)))))

\* long division of a by w, 0 < w < 2^19: <<quotient digits, remainder>>
RECURSIVE DivSmall(_, _, _, _, _)
DivSmall(a_, i_, w_, rem_, acc_) ==
  CHOOSE val \in {(
      IF i > Len(a) THEN <<Strip(acc), rem>>
      ELSE DivSmall(a, i + 1, w, (rem * 4096 + a[i]) % w,
                    Append(acc, (rem * 4096 + a[i]) \div w))
    ) : a \in {a_}, i \in {i_}, w \in {w_}, rem \in {rem_}, acc \in {acc_}} : TRUE

\* a < b for digit sequences of one length
LessDigits(a_, b_) ==
  CHOOSE val \in {(
      \E j \in 1..Len(a) : a[j] < b[j] /\ \A i \in 1..(j - 1) : a[i] = b[i]
    ) : a \in {a_}, b \in {b_}} : TRUE

\* a borrow enters digit k of a - b
BorrowInto(a_, b_, k_) ==
  CHOOSE val \in {(
      \E j \in (k + 1)..Len(a) :
        a[j] < b[j] /\ \A i \in (k + 1)..(j - 1) : a[i] = b[i]
    ) : a \in {a_}, b \in {b_}, k \in {k_}} : TRUE

\* a - b for digit sequences of one length, a >= b
SubDigits(a_, b_) ==
  CHOOSE val \in {(
      SubSeq([k \in 1..Len(a) |->
                (a[k] - b[k] - (IF BorrowInto(a, b, k) THEN 1 ELSE 0) + 4096)
                  % 4096],
             1, Len(a))
    ) : a \in {a_}, b \in {b_}} : TRUE

\* |a - b| for digit sequences of one length
DiffDigits(a_, b_) ==
  CHOOSE val \in {(
      IF LessDigits(a, b) THEN Strip(SubDigits(b, a)) ELSE Strip(SubDigits(a, b))
    ) : a \in {a_}, b \in {b_}} : TRUE

\* a + c * 4096^(Len(a) - i), 0 <= c < 4096: digit i takes c, and its carry
\* runs up through the full digits above it
AddCarry(a_, i_, c_) ==
  CHOOSE val \in {(
      (IF a[i] + c >= 4096 /\ \A j \in 1..(i - 1) : a[j] = 4095
       THEN <<1>> ELSE <<>>)
      \o SubSeq([k \in 1..Len(a) |->
                   IF k > i THEN a[k]
                   ELSE IF k = i THEN (a[i] + c) % 4096
                   ELSE IF a[i] + c >= 4096
                           /\ \A j \in (k + 1)..(i - 1) : a[j] = 4095
                        THEN (a[k] + 1) % 4096
                   ELSE a[k]],
                1, Len(a))
    ) : a \in {a_}, i \in {i_}, c \in {c_}} : TRUE

\* a with the bits below bit b of digit pos cleared
ClearLow(a_, pos_, b) ==
  CHOOSE val \in {(
      SubSeq(a, 1, pos - 1) \o <<a[pos] - (a[pos] % Pow2(b))>>
        \o Zeros(Len(a) - pos)
    ) : a \in {a_}, pos \in {pos_}} : TRUE

\* the guard bit is bit bG of digit posG, the last kept bit is bit bL of
\* digit posL; round to nearest, ties to even
RoundCut(a_, st_, posG_, bG_, posL_, bL_) ==
  CHOOSE val \in {(
      AddCarry(ClearLow(a, posL, bL), posL,
               IF /\ (a[posG] \div Pow2(bG)) % 2 = 1
                  /\ \/ st
                     \/ a[posG] % Pow2(bG) # 0
                     \/ \E i \in (posG + 1)..Len(a) : a[i] # 0
                     \/ (a[posL] \div Pow2(bL)) % 2 = 1
               THEN Pow2(bL) ELSE 0)
    ) : a \in {a_}, st \in {st_}, posG \in {posG_}, bG \in {bG_}, posL \in {posL_}, bL \in {bL_}} : TRUE

RoundBy(a_, st, sh_) ==
  CHOOSE val \in {(
      IF sh <= 0 THEN a
      ELSE RoundCut(a, st, Len(a) - ((sh - 1) \div 12), (sh - 1) % 12,
                    Len(a) - (sh \div 12), sh % 12)
    ) : a \in {a_}, sh \in {sh_}} : TRUE

\* the number a (with a non-zero fraction below it when st) rounded to the
\* 53 significant bits of a double
RoundDouble(a_, st) ==
  CHOOSE val \in {(
      RoundBy(a, st, 12 * (Len(a) - 1) + BitLen(a[1]) - 53)
    ) : a \in {a_}} : TRUE

\* top: the first two digits, next: the third and fourth, k: the number of
\* bits of next that fill top up to 30 bits
ToFloatBits(s, top, next_, k_, e, st) ==
  CHOOSE val \in {(
      Round(s, top * Pow2(k) + (next \div Pow2(24 - k)), e - k,
            st \/ next % Pow2(24 - k) # 0)
    ) : next \in {next_}, k \in {k_}} : TRUE

ToFloatDigits(s_, d_, n_, e_) ==
  CHOOSE val \in {(
      ToFloatBits(s, d[1] * 4096 + d[2], d[3] * 4096 + d[4], 18 - BitLen(d[1]),
                  e + 12 * (n - 2), \E i \in 5..n : d[i] # 0)
    ) : s \in {s_}, d \in {d_}, n \in {n_}, e \in {e_}} : TRUE

\* the double (-1)^s * a * 2^e converted to float
ToFloat(s, a_, e) ==
  CHOOSE val \in {(
      ToFloatDigits(s, a \o <<0, 0, 0>>, Len(a), e)
    ) : a \in {a_}} : TRUE

\* the product of two doubles, b = <<digits, exponent>>
MulDouble(b_, c_) ==
  CHOOSE val \in {(
      <<RoundDouble(MulDigits(b[1], c[1]), FALSE), b[2] + c[2]>>
    ) : b \in {b_}, c \in {c_}} : TRUE

BigDigits == 7

\* a * 2^e with st a non-zero fraction below it, cut to BigDigits digits
BigCut(a_, e_, st_) ==
  CHOOSE val \in {(
      IF Len(a) > BigDigits
      THEN <<SubSeq(a, 1, BigDigits), e + 12 * (Len(a) - BigDigits),
             st \/ \E i \in (BigDigits + 1)..Len(a) : a[i] # 0>>
      ELSE <<a, e, st>>
    ) : a \in {a_}, e \in {e_}, st \in {st_}} : TRUE

BigSquare(b_) ==
  CHOOSE val \in {(
      BigCut(MulDigits(b[1], b[1]), 2 * b[2], b[3])
    ) : b \in {b_}} : TRUE

PowResult(b_) ==
  CHOOSE val \in {(
      ToFloat(0, RoundDouble(b[1], b[3]), b[2])
    ) : b \in {b_}} : TRUE

\* pow(x, 32) of line 168 for a float x >= 0: the 32nd power by five
\* squarings that keep BigDigits digits (84 bits) and a sticky bit, rounded
\* to double and then to float
Pow32(x_) ==
  CHOOSE val \in {(
      IF IsNaN(x) THEN NaN
      ELSE IF IsZero(x) THEN Zero(0)
      ELSE IF IsInf(x) THEN Inf(0)
      ELSE PowResult(
             BigSquare(BigSquare(BigSquare(BigSquare(BigSquare(
               <<FloatDigits(x), x[2], FALSE>>))))))
    ) : x \in {x_}} : TRUE

DivPad == 7

PixelQuotient(qr_) ==
  CHOOSE val \in {(
      RoundDouble(qr[1], qr[2] # 0)
    ) : qr \in {qr_}} : TRUE

\* (i + 0.5) / n in double, as digits times 2^(-12 * DivPad)
PixelCentre(i, n) ==
  PixelQuotient(DivSmall(IntDigits(2 * i + 1) \o Zeros(DivPad), 1, 2 * n, 0,
                         <<>>))

PadTo(a_, n) ==
  CHOOSE val \in {(
      Zeros(n - Len(a)) \o a
    ) : a \in {a_}} : TRUE

\* a - b in double for two digit sequences of one length, both times
\* 2^(-12 * DivPad): <<sign, digits, exponent>>
Difference(a_, b_) ==
  CHOOSE val \in {(
      <<IF LessDigits(a, b) THEN 1 ELSE 0,
        RoundDouble(DiffDigits(a, b), FALSE), -12 * DivPad>>
    ) : a \in {a_}, b \in {b_}} : TRUE

\* a float converted to double: <<digits, exponent>>
DoubleOf(f_) ==
  CHOOSE val \in {(
      <<FloatDigits(f), f[2]>>
    ) : f \in {f_}} : TRUE

(***************************************************************************)
(* trace(ray, triangles, depth).  The call stack is the sequence `stack`   *)
(* of frames, the running invocation last.  A frame holds the arguments    *)
(* and locals of one invocation, its position pc, and what it has done so  *)
(* far: nScan and nShadow count its calls of intersectTriangle in the two  *)
(* loops, nCalls its recursive calls, child is the value its recursive     *)
(* call returned.  `ev` describes the step just taken.                     *)
(***************************************************************************)
Black == Vector3(F0, F0, F0)

\* a miss that yields black
BackgroundBlack == Vector3(F0, F0, F0)

\* line 149
Background == Vector3(T(2), T(7), T(8))

\* line 157
lightPos == IVec(2, 5, 1)

\* line 153
ambientStrength == T(3)

\* line 167
specularStrength == T(5)

Frame(ray, depth) ==
  [depth |-> depth, ray |-> ray, pc |-> "enter", i |-> 0,
   closestHit |-> HitRecord,
   ambient |-> Black, diffuse |-> Black, specular |-> Black,
   shadowRay |-> Ray(Black, Black), inShadow |-> FALSE,
   reflection |-> Black,
   nScan |-> 0, nShadow |-> 0, nCalls |-> 0, child |-> Black]

top == stack[Len(stack)]

SetTop(f) == [stack EXCEPT ![Len(stack)] = f]

NoEvent == [kind |-> "step"]

\* lines 154, 163-169, 173-175
ShadeTerms(f_, materialColor_, lightDir_, viewDir, reflectDir) ==
  CHOOSE val \in {(
      [f EXCEPT
         !.ambient   = VScale(materialColor, ambientStrength),
         !.diffuse   = VScale(materialColor,
                              FMax(F0, dot(f.closestHit.normal, lightDir))),
         !.specular  = VScale(VScale(IVec(1, 1, 1),
                                     Pow32(FMax(F0, dot(viewDir, reflectDir)))),
                              specularStrength),
         !.shadowRay = Ray(VAdd(f.closestHit.position,
                                VScale(f.closestHit.normal, EPSILON)),
                           lightDir),
         !.inShadow  = FALSE,
         !.pc = "shadow", !.i = 1]
    ) : f \in {f_}, materialColor \in {materialColor_}, lightDir \in {lightDir_}} : TRUE

\* lines 159-160
ShadeLight(f_, materialColor, lightDir_) ==
  CHOOSE val \in {(
      ShadeTerms(f, materialColor, lightDir,
                 normalize(VSub(f.ray.origin, f.closestHit.position)),
                 reflect(VNeg(lightDir), f.closestHit.normal))
    ) : f \in {f_}, lightDir \in {lightDir_}} : TRUE

\* lines 151-175: material, light, diffuse and specular terms, shadow ray
Shading(scene, f_) ==
  CHOOSE val \in {(
      ShadeLight(f, scene[f.closestHit.triangle].color,
                 normalize(VSub(lightPos, f.closestHit.position)))
    ) : f \in {f_}} : TRUE

\* the local shading of a frame that ignores the shadow test
LocalShadingLit(f_) ==
  CHOOSE val \in {(
      VAdd(VAdd(f.ambient, f.diffuse), f.specular)
    ) : f \in {f_}} : TRUE

\* lines 197-200
LocalShading(f_) ==
  CHOOSE val \in {(
      IF ~f.inShadow THEN VAdd(VAdd(f.ambient, f.diffuse), f.specular)
      ELSE f.ambient
    ) : f \in {f_}} : TRUE

\* lines 196-202
Combined(f_) ==
  CHOOSE val \in {(
      VAdd(LocalShading(f), f.reflection)
    ) : f \in {f_}} : TRUE

\* lines 190-192
ReflectRay(f_) ==
  CHOOSE val \in {(
      Ray(VAdd(f.closestHit.position, VScale(f.closestHit.normal, EPSILON)),
          reflect(f.ray.direction, f.closestHit.normal))
    ) : f \in {f_}} : TRUE

\* reflection whatever the material
ShinyAnyColor(scene, f) == f.depth < 3

\* reflection one level deeper
ShinyDeeper(scene, f_) ==
  CHOOSE val \in {(
      f.depth < 4 /\ FGt(scene[f.closestHit.triangle].color.x, T(7))
    ) : f \in {f_}} : TRUE

\* line 189
Shiny(scene, f_) ==
  CHOOSE val \in {(
      f.depth < 3 /\ FGt(scene[f.closestHit.triangle].color.x, T(7))
    ) : f \in {f_}} : TRUE

\* a recursion guard that is one level late
DepthExceededLate(depth) == depth > 4

\* line 136
DepthExceeded(depth) == depth > 3

\* a nearest-hit scan that keeps the last triangle hit
ScanUpdateLast(out_, closest) ==
  CHOOSE val \in {(
      IF out.ret THEN out.hit ELSE closest
    ) : out \in {out_}} : TRUE

\* lines 141-145
ScanUpdate(out_, closest_) ==
  CHOOSE val \in {(
      IF out.ret /\ FLt(out.hit.distance, closest.distance) THEN out.hit
      ELSE closest
    ) : out \in {out_}, closest \in {closest_}} : TRUE

\* lines 179-180
Occluded(out_, f) ==
  CHOOSE val \in {(
      /\ out.ret
      /\ FGt(out.hit.distance, F0)
      /\ FLt(out.hit.distance, length(VSub(lightPos, f.closestHit.position)))
    ) : out \in {out_}} : TRUE

\* (int) of a float in the range of int: truncation toward zero
Trunc(p_) ==
  CHOOSE val \in {(
      (IF p[1] = 1 THEN -1 ELSE 1) *
      (IF p[2] >= 0 THEN p[3] * Pow2(p[2])
       ELSE IF p[2] < -30 THEN 0
       ELSE p[3] \div Pow2(-p[2]))
    ) : p \in {p_}} : TRUE

Clamp(n_) ==
  CHOOSE val \in {(
      IF n > 255 THEN 255 ELSE IF n < 0 THEN 0 ELSE n
    ) : n \in {n_}} : TRUE

\* std::min(255, std::max(0, (int) p)).  The conversion of a NaN or of a
\* value outside the range of int is undefined: every int can come out of
\* it, and so every value 0..255 out of the clamp.
ByteOf(p_) ==
  CHOOSE val \in {(
      IF IsNaN(p) \/ IsInf(p) \/ p[2] > 7 THEN 0..255 ELSE {Clamp(Trunc(p))}
    ) : p \in {p_}} : TRUE

\* lines 350-352 for one channel c: the set of values that can be written;
\* the int 255 is converted to 255.0f = 16711680 * 2^-16
ToByte(c) == ByteOf(FMul(<<0, -16, 16711680>>, c))

width == 3

height == 2

\* a column-major cell index
CellIndexColumnMajor(x, y) == x * height + y

\* line 331: the cell of pixel (x, y)
CellIndex(x, y) == y * width + x

\* a return statement of trace in frame f: the frame is popped and the value
\* goes to the caller, which is either the reflection statement of the
\* calling invocation (line 193), the pixel assignment of main (line 331) or
\* the caller of the function-level specification
Return(value_, via, f) ==
  \E value \in {value_} :
    /\ ev' = [kind |-> "return", via |-> via, value |-> value, frame |-> f]
    /\ IF Len(stack) > 1
       THEN /\ stack' = SubSeq(stack, 1, Len(stack) - 2) \o
                           <<[stack[Len(stack) - 1] EXCEPT
                                !.child = value, !.pc = "combine"]>>
            /\ UNCHANGED <<pcMain, px, py, image, hist>>
       ELSE /\ stack' = <<>>
            /\ IF pcMain = "tracing"
               THEN /\ image' = [image EXCEPT ![CellIndex(px, py)] = value]
                    /\ hist' = [hist EXCEPT
                                  !.order = Append(@, CellIndex(px, py))]
                    /\ px' = px + 1
                    /\ pcMain' = "render"
                    /\ py' = py
               ELSE /\ pcMain' = "returned"
                    /\ UNCHANGED <<px, py, image, hist>>
    /\ UNCHANGED triangles

\* line 202
ReturnShaded(f_) ==
  \E f \in {f_} :
    Return(Combined(f), "shaded", f)

\* line 136, and line 138 when the guard does not return
TraceEnter ==
  /\ stack # <<>>
  /\ top.pc = "enter"
  /\ IF DepthExceeded(top.depth)
     THEN Return(Black, "depth", top)
     ELSE /\ stack' = SetTop([top EXCEPT !.closestHit = HitRecord,
                                         !.pc = "scan", !.i = 1])
          /\ ev' = NoEvent
          /\ UNCHANGED <<triangles, pcMain, px, py, image, hist>>

ScanResult(out_) ==
  \E out \in {out_} :
    /\ stack' = SetTop([top EXCEPT
                          !.closestHit = ScanUpdate(out, top.closestHit),
                          !.i = @ + 1, !.nScan = @ + 1])
    /\ ev' = [kind |-> "isect", phase |-> "scan", k |-> top.i,
              ray |-> top.ray, out |-> out]

\* lines 139-146: one iteration of the nearest-hit loop
ScanTriangle ==
  /\ stack # <<>>
  /\ top.pc = "scan"
  /\ top.i <= Len(triangles)
  /\ ScanResult(intersectTriangle(triangles, top.i, top.ray, HitRecord))
  /\ UNCHANGED <<triangles, pcMain, px, py, image, hist>>

\* lines 148-149
ScanMiss ==
  /\ stack # <<>>
  /\ top.pc = "scan"
  /\ top.i > Len(triangles)
  /\ top.closestHit.triangle = 0
  /\ Return(Background, "miss", top)

\* lines 151-175
Shade ==
  /\ stack # <<>>
  /\ top.pc = "scan"
  /\ top.i > Len(triangles)
  /\ top.closestHit.triangle # 0
  /\ stack' = SetTop(Shading(triangles, top))
  /\ ev' = NoEvent
  /\ UNCHANGED <<triangles, pcMain, px, py, image, hist>>

ShadowUpdate(out, occ_) ==
  \E occ \in {occ_} :
    /\ stack' = SetTop([top EXCEPT
                          !.inShadow = occ,
                          !.i = IF occ THEN Len(triangles) + 1 ELSE @ + 1,
                          !.nShadow = @ + 1])
    /\ ev' = [kind |-> "isect", phase |-> "shadow", k |-> top.i,
              ray |-> top.shadowRay, out |-> out]

ShadowResult(out_) ==
  \E out \in {out_} :
    ShadowUpdate(out, Occluded(out, top))

\* lines 177-185: one iteration of the shadow loop; `break` ends the loop
ShadowTriangle ==
  /\ stack # <<>>
  /\ top.pc = "shadow"
  /\ top.i <= Len(triangles)
  /\ ShadowResult(intersectTriangle(triangles, top.i, top.shadowRay, HitRecord))
  /\ UNCHANGED <<triangles, pcMain, px, py, image, hist>>

\* lines 188-193: the reflection ray is cast and trace recurses
Reflect ==
  /\ stack # <<>>
  /\ top.pc = "shadow"
  /\ top.i > Len(triangles)
  /\ Shiny(triangles, top)
  /\ stack' = SetTop([top EXCEPT !.pc = "reflecting", !.nCalls = @ + 1])
                \o <<Frame(ReflectRay(top), top.depth + 1)>>
  /\ hist' = [hist EXCEPT !.inv = @ + 1]
  /\ ev' = NoEvent
  /\ UNCHANGED <<triangles, pcMain, px, py, image>>

\* lines 188-202 when the condition of line 189 is false
SkipReflect ==
  /\ stack # <<>>
  /\ top.pc = "shadow"
  /\ top.i > Len(triangles)
  /\ ~Shiny(triangles, top)
  /\ ReturnShaded(top)

\* line 193 after the recursive call has returned, and lines 196-202
Combine ==
  /\ stack # <<>>
  /\ top.pc = "combine"
  /\ ReturnShaded([top EXCEPT !.reflection = VScale(top.child, T(5))])

TraceStep ==
  \/ TraceEnter
  \/ ScanTriangle
  \/ ScanMiss
  \/ Shade
  \/ ShadowTriangle
  \/ Reflect
  \/ SkipReflect
  \/ Combine

(***************************************************************************)
(* computePrimRay, loadOBJ and the scene of main                           *)
(***************************************************************************)
\* (float) tan(60 * 0.5 * PI / 180) = 0.57735025882720947, line 207
scale == <<0, -24, 9686330>>

\* line 286: (0, 1.5, 4)
cameraPos == Vector3(I(0), <<0, -23, 12582912>>, I(4))

\* a double b = <<digits, exponent>> of sign s assigned to a float
SignedFloat(s, b_) ==
  CHOOSE val \in {(
      ToFloat(s, b[1], b[2])
    ) : b \in {b_}} : TRUE

\* line 209 from 2 * ((x + 0.5) / width) - 1 on, u = <<sign, digits, exponent>>
PrimX(u_, aspect) ==
  CHOOSE val \in {(
      SignedFloat(u[1], MulDouble(MulDouble(<<u[2], u[3]>>, aspect),
                                  DoubleOf(scale)))
    ) : u \in {u_}} : TRUE

\* line 210 from 1 - 2 * ((y + 0.5) / height) on
PrimY(u_) ==
  CHOOSE val \in {(
      SignedFloat(u[1], MulDouble(<<u[2], u[3]>>, DoubleOf(scale)))
    ) : u \in {u_}} : TRUE

\* lines 209-215; tx = (x + 0.5) / width, ty = (y + 0.5) / height, and
\* <<1>> \o Zeros(DivPad) is 1.0, all as digits times 2^(-12 * DivPad)
PrimDir(cam, aspect, tx, ty) ==
  Ray(cam,
      normalize(Vector3(
        PrimX(Difference(PadTo(MulDigits(tx, <<2>>), DivPad + 1),
                         <<1>> \o Zeros(DivPad)),
              aspect),
        PrimY(Difference(<<1>> \o Zeros(DivPad),
                         PadTo(MulDigits(ty, <<2>>), DivPad + 1))),
        I(-1))))

\* lines 205-216: px and py are evaluated in double and converted to float
computePrimRay(x, y, w_, h_, cam) ==
  CHOOSE val \in {(
      PrimDir(cam, DoubleOf(FDiv(FromInt(w), FromInt(h))), PixelCentre(x, w),
              PixelCentre(y, h))
    ) : w \in {w_}, h \in {h_}} : TRUE

\* line 263-265: the three indices are those of vertices read so far
ValidFace(idx_, nv_) ==
  CHOOSE val \in {(
      /\ idx[1] >= 0 /\ idx[1] < nv
      /\ idx[2] >= 0 /\ idx[2] < nv
      /\ idx[3] >= 0 /\ idx[3] < nv
    ) : idx \in {idx_}, nv \in {nv_}} : TRUE

\* lines 266-269
LoadFace(vertices_, idx_, color, sc_, offset_, ds) ==
  CHOOSE val \in {(
      Triangle(VAdd(VScale(vertices[idx[1] + 1], sc), offset),
               VAdd(VScale(vertices[idx[2] + 1], sc), offset),
               VAdd(VScale(vertices[idx[3] + 1], sc), offset), color, ds)
    ) : vertices \in {vertices_}, idx \in {idx_}, sc \in {sc_}, offset \in {offset_}} : TRUE

\* lines 230-272: the lines of the file from line n on.  A line is
\* <<"v", vertex>> or <<"f", <<i, j, k>>>> with the 1-based indices of the
\* file; idx is a face's indices less one (line 256).
RECURSIVE LoadLines(_, _, _, _, _, _, _, _)
LoadFaceLine(lines, n, vertices_, tris_, idx_, color_, sc_, offset_, ds_) ==
  CHOOSE val \in {(
      LoadLines(lines, n + 1, vertices,
                IF ValidFace(idx, Len(vertices))
                THEN Append(tris, LoadFace(vertices, idx, color, sc, offset, ds))
                ELSE tris,
                color, sc, offset, ds)
    ) : vertices \in {vertices_}, tris \in {tris_}, idx \in {idx_}, color \in {color_}, sc \in {sc_}, offset \in {offset_}, ds \in {ds_}} : TRUE

LoadLines(lines_, n_, vertices_, tris_, color_, sc_, offset_, ds_) ==
  CHOOSE val \in {(
      IF n > Len(lines) THEN tris
      ELSE IF lines[n][1] = "v"
           THEN LoadLines(lines, n + 1, Append(vertices, lines[n][2]), tris,
                          color, sc, offset, ds)
      ELSE LoadFaceLine(lines, n, vertices, tris,
                        <<lines[n][2][1] - 1, lines[n][2][2] - 1,
                          lines[n][2][3] - 1>>,
                        color, sc, offset, ds)
    ) : lines \in {lines_}, n \in {n_}, vertices \in {vertices_}, tris \in {tris_}, color \in {color_}, sc \in {sc_}, offset \in {offset_}, ds \in {ds_}} : TRUE

\* loadOBJ(path, color, scale, offset, doubleSided) on a file with the given
\* lines; a file that cannot be opened gives no triangle, as does one with
\* no line
loadOBJ(lines, color, sc, offset, ds) ==
  LoadLines(lines, 1, <<>>, <<>>, color, sc, offset, ds)

\* lines 313-322: the light indicator triangle of offset off
Lamp(off_) ==
  CHOOSE val \in {(
      Triangle(lightPos,
               VAdd(VAdd(lightPos, Vector3(T(2), F0, F0)), off),
               VAdd(VAdd(lightPos, Vector3(F0, T(2), F0)), off),
               Vector3(F1, F1, T(5)), TRUE)
    ) : off \in {off_}} : TRUE

\* lines 297-322: floor, back wall and the three light indicator triangles
FixedScene ==
  << Triangle(IVec(-5, -1, -5), IVec(5, -1, -5), IVec(5, -1, 5),
              Vector3(T(3), T(6), T(3)), TRUE),
     Triangle(IVec(-5, -1, -5), IVec(5, -1, 5), IVec(-5, -1, 5),
              Vector3(T(3), T(6), T(3)), TRUE),
     Triangle(IVec(-5, 5, -5), IVec(5, 5, -5), IVec(5, -1, -5),
              Vector3(T(4), T(4), T(6)), TRUE),
     Triangle(IVec(-5, 5, -5), IVec(5, -1, -5), IVec(-5, -1, -5),
              Vector3(T(4), T(4), T(6)), TRUE),
     Lamp(Vector3(T(1), T(1), T(1))),
     Lamp(Vector3(FNeg(T(1)), T(1), T(1))),
     Lamp(Vector3(T(1), FNeg(T(1)), T(1))) >>

\* lines 289-295 followed by lines 297-322
MainScene(lines) ==
  loadOBJ(lines, Vector3(T(8), T(5), T(2)), F1, IVec(0, 0, -2), TRUE)
    \o FixedScene

(***************************************************************************)
(* Inputs.  Catalog holds the triangles the scenes of the function-level   *)
(* specification are built from, Rays its rays; ObjLines is the mesh file  *)
(* read by main.                                                           *)
(***************************************************************************)
MaxTris == 2

MaxDepthArg == 4

Catalog ==
  << \* 1: matte floor y = 0, single-sided, normal +y
     Triangle(IVec(-4, 0, -4), IVec(-4, 0, 6), IVec(6, 0, -4),
              Vector3(T(3), T(6), T(3)), FALSE),
     \* 2: shiny plate y = 2, double-sided, geometric normal -y
     Triangle(IVec(-1, 2, -1), IVec(3, 2, -1), IVec(-1, 2, 3),
              Vector3(T(8), T(5), T(2)), TRUE),
     \* 3: shiny plate y = 1, single-sided, normal +y
     Triangle(IVec(-2, 1, -2), IVec(-2, 1, 4), IVec(4, 1, -2),
              Vector3(F1, F1, T(5)), FALSE),
     \* 4: matte wall z = -3, single-sided, normal +z
     Triangle(IVec(-5, -1, -3), IVec(5, -1, -3), IVec(0, 6, -3),
              Vector3(T(4), T(4), T(6)), FALSE) >>

Rays ==
  { \* straight down between the plates, from the height 1.5 of the camera
    Ray(Vector3(T(5), cameraPos.y, T(5)), IVec(0, -1, 0)),
    \* straight up from below the floor
    Ray(Vector3(T(5), I(-1), T(5)), IVec(0, 1, 0)),
    \* from the camera, down and into the scene: (0.25, -0.5, -1)
    Ray(cameraPos,
        normalize(Vector3(<<0, -25, 8388608>>, <<1, -24, 8388608>>, I(-1)))),
    \* parallel to the floor and the plates
    Ray(Vector3(T(5), cameraPos.y, T(5)), IVec(1, 0, 0)),
    \* from above onto the plates
    Ray(IVec(0, 4, 0), normalize(IVec(1, -4, 1))),
    \* straight up past the corner v1 of plate 2, at z = -1 + 2^-24
    Ray(Vector3(I(3), I(0), <<1, -24, 16777215>>), IVec(0, 1, 0)) }

\* every sequence of at most MaxTris distinct triangles of the catalog
Scenes ==
  UNION { { [i \in 1..n |-> Catalog[s[i]]] :
              s \in {t \in [1..n -> 1..Len(Catalog)] :
                       \A i, j \in 1..n : t[i] = t[j] => i = j} } :
          n \in 0..MaxTris }

\* two mirrors facing each other, the second one behind the camera at
\* z = 5.5 = 11534336 * 2^-21, and a face that names a vertex the file does
\* not have
ObjLines ==
  << <<"v", IVec(-3, 2, 0)>>, <<"v", IVec(3, 2, 0)>>, <<"v", IVec(0, 9, 0)>>,
     <<"f", <<1, 2, 3>>>>,
     <<"v", Vector3(I(-3), I(4), <<0, -21, 11534336>>)>>,
     <<"v", Vector3(I(3), I(4), <<0, -21, 11534336>>)>>,
     <<"v", Vector3(I(0), I(10), <<0, -21, 11534336>>)>>,
     <<"f", <<4, 5, 6>>>>,
     <<"f", <<5, 6, 7>>>> >>

NoHist == [inv |-> 1, d0 |-> 0, order |-> <<>>, reads |-> 0, out |-> <<>>]

(***************************************************************************)
(* Function-level specification: trace(ray, triangles, depth) called on    *)
(* any ray, scene and depth.  hist.d0 is the depth of that call, hist.inv  *)
(* the number of invocations of trace it has caused so far.                *)
(***************************************************************************)
Init ==
  /\ triangles \in Scenes
  /\ \E r \in Rays, d \in 0..MaxDepthArg :
       /\ stack = <<Frame(r, d)>>
       /\ hist = [NoHist EXCEPT !.d0 = d]
  /\ ev = NoEvent
  /\ pcMain = "harness"
  /\ px = 0
  /\ py = 0
  /\ image = <<>>

Next == TraceStep

Spec == Init /\ [][Next]_vars

\* the invocation runs on: a sequential program takes its next step
LiveSpec == Init /\ [][Next]_vars /\ WF_vars(Next)

(***************************************************************************)
(* main: scene assembly, the render loop and the image writer.  hist.order *)
(* lists the cells of the buffer in the order they were written,           *)
(* hist.reads counts the cells the writer has read, hist.out is the file.  *)
(***************************************************************************)
\* the mesh file is missing or empty, or holds the first 4 or all 9 lines of
\* ObjLines
RenderInit ==
  /\ \E n \in {0, 4, 9} : triangles = MainScene(SubSeq(ObjLines, 1, n))
  /\ stack = <<>>
  /\ ev = NoEvent
  /\ pcMain = "render"
  /\ px = 0
  /\ py = 0
  /\ image = [c \in 0..(width * height - 1) |-> Black]
  /\ hist = [NoHist EXCEPT !.inv = 0]

\* lines 329-331: the primary ray of pixel (px, py) and the call of trace
RenderPixel ==
  /\ pcMain = "render"
  /\ py < height
  /\ px < width
  /\ stack' = <<Frame(computePrimRay(px, py, width, height, cameraPos), 0)>>
  /\ pcMain' = "tracing"
  /\ hist' = [hist EXCEPT !.inv = 1]
  /\ ev' = NoEvent
  /\ UNCHANGED <<triangles, px, py, image>>

\* lines 328-340: the end of a row
NextRow ==
  /\ pcMain = "render"
  /\ py < height
  /\ px >= width
  /\ py' = py + 1
  /\ px' = 0
  /\ ev' = NoEvent
  /\ UNCHANGED <<triangles, stack, pcMain, image, hist>>

\* lines 342-348: the loops are over; the file is opened
BeginOutput ==
  /\ pcMain = "render"
  /\ py >= height
  /\ pcMain' = "output"
  /\ ev' = NoEvent
  /\ UNCHANGED <<triangles, stack, px, py, image, hist>>

WriteColor(color_) ==
  \E color \in {color_} :
    \E r \in ToByte(color.x), g \in ToByte(color.y), b \in ToByte(color.z) :
      hist' = [hist EXCEPT !.reads = @ + 1, !.out = Append(@, <<r, g, b>>)]

\* lines 349-354: the writer reads the next cell of the buffer
WritePixel ==
  /\ pcMain = "output"
  /\ hist.reads < width * height
  /\ WriteColor(image[hist.reads])
  /\ ev' = NoEvent
  /\ UNCHANGED <<triangles, stack, pcMain, px, py, image>>

\* lines 355-358
Finish ==
  /\ pcMain = "output"
  /\ hist.reads >= width * height
  /\ pcMain' = "done"
  /\ ev' = NoEvent
  /\ UNCHANGED <<triangles, stack, px, py, image, hist>>

RenderNext ==
  \/ RenderPixel
  \/ NextRow
  \/ BeginOutput
  \/ WritePixel
  \/ Finish
  \/ TraceStep

\* main runs on until it returns: a sequential program takes its next step
RenderSpec == RenderInit /\ [][RenderNext]_vars /\ WF_vars(RenderNext)


(***************************************************************************)
(* Properties.  Probe(k, ray) intersects triangle k of the scene with a    *)
(* ray on a fresh HitRecord, independently of the loops of trace.          *)
(***************************************************************************)
Probe(k, ray) == intersectTriangle(triangles, k, ray, HitRecord)

HitSet(ray) == {k \in 1..Len(triangles) : Probe(k, ray).ret}

\* the geometric normal cross(v1 - v0, v2 - v0) of a triangle, not normalised
GeoNormal(tri) == cross(VSub(tri.v1, tri.v0), VSub(tri.v2, tri.v0))

BackFacing(tri, ray) == FGt(dot(ray.direction, GeoNormal(tri)), F0)

\* the colour of the triangle a frame has hit
HitColor(f) == triangles[f.closestHit.triangle].color

\* ambient + (shadow ? 0 : diffuse + specular) + reflection, in the order
\* of the additions of lines 197-202
Composite(f) ==
  VAdd(IF f.inShadow THEN f.ambient
       ELSE VAdd(VAdd(f.ambient, f.diffuse), f.specular),
       f.reflection)

\* every triangle of the scene with the outcome of its intersection with
\* the ray
Probes(ray) == {<<k, Probe(k, ray)>> : k \in 1..Len(triangles)}

\* the HitRecord frame f retains is that of a scene triangle its ray hits,
\* at a distance > EPSILON, and no scene triangle is hit at a strictly
\* smaller distance; nothing is retained exactly when no triangle is hit
Nearest(f) ==
  LET H == {p \in Probes(f.ray) : p[2].ret}
  IN  IF H = {} THEN f.closestHit.triangle = 0
      ELSE /\ \E p \in H : /\ p[1] = f.closestHit.triangle
                            /\ p[2].hit = f.closestHit
           /\ FGt(f.closestHit.distance, EPSILON)
           /\ \A p \in H : ~FLt(p[2].hit.distance, f.closestHit.distance)

\* C1: once the nearest-hit loop of a trace call has visited all triangles,
\* the retained HitRecord is that of a scene triangle the ray hits (at a
\* distance > EPSILON) and no scene triangle is hit at a strictly smaller
\* distance; that record is the one the call has shaded when it returns.
C1_NearestHit ==
  /\ (stack # <<>> /\ top.pc = "scan" /\ top.i > Len(triangles)) =>
       Nearest(top)
  /\ (ev.kind = "return" /\ ev.via # "depth") =>
       /\ Nearest(ev.frame)
       /\ (ev.via = "shaded") = (ev.frame.closestHit.triangle # 0)

\* a scan over two triangles that are both hit, the nearer one first
C1_Witness ==
  /\ stack # <<>>
  /\ top.pc = "scan" /\ top.i > Len(triangles)
  /\ Cardinality(HitSet(top.ray)) >= 2
  /\ top.closestHit.triangle = 1
  /\ \E k \in HitSet(top.ray) :
       FLt(top.closestHit.distance, Probe(k, top.ray).hit.distance)

\* C2: a trace call of depth 0..3 whose ray hits no triangle of the scene
\* (the empty scene included) returns exactly (0.2, 0.7, 0.8), having made
\* no shadow test and no recursive call.
C2_MissIsBackground ==
  /\ \A n \in 1..Len(stack) :
       \/ /\ stack[n].pc \in {"enter", "scan"}
          /\ stack[n].nShadow = 0
          /\ stack[n].nCalls = 0
       \/ stack[n].depth \notin 0..3
       \/ HitSet(stack[n].ray) # {}
  /\ (ev.kind = "return" /\ ev.frame.depth \in 0..3
        /\ HitSet(ev.frame.ray) = {}) =>
          /\ ev.via = "miss"
          /\ ev.value = Vector3(T(2), T(7), T(8))
          /\ ev.frame.nScan = Len(triangles)
          /\ ev.frame.nShadow = 0
          /\ ev.frame.nCalls = 0

\* a call on a scene with triangles, all of them tested and none hit
C2_Witness ==
  /\ ev.kind = "return"
  /\ ev.via = "miss"
  /\ ev.frame.depth \in 0..3
  /\ Len(triangles) = MaxTris
  /\ ev.frame.nScan = Len(triangles)
  /\ ev.value = Vector3(T(2), T(7), T(8))

\* C3: a trace call with depth > 3 returns (0, 0, 0) whatever the ray and the
\* scene, before any intersection test, shadow test or recursive call.
C3_DepthCeiling ==
  /\ \A n \in 1..Len(stack) :
       stack[n].depth > 3 =>
          /\ stack[n].pc = "enter"
          /\ stack[n].nScan = 0
          /\ stack[n].nShadow = 0
          /\ stack[n].nCalls = 0
  /\ (ev.kind = "return" /\ ev.frame.depth > 3) =>
          /\ ev.via = "depth"
          /\ ev.value = Vector3(F0, F0, F0)
          /\ ev.frame.nScan = 0
          /\ ev.frame.nShadow = 0
          /\ ev.frame.nCalls = 0

\* a call with depth 4 on a scene the ray would hit
C3_Witness ==
  /\ ev.kind = "return"
  /\ ev.frame.depth = 4
  /\ HitSet(ev.frame.ray) # {}
  /\ ev.value = Vector3(F0, F0, F0)

\* C4: for a single-sided triangle and a ray that approaches it from the
\* back face (direction . cross(v1 - v0, v2 - v0) > 0), intersectTriangle
\* reports no hit.
C4_BackFaceRejected ==
  (/\ ev.kind = "isect"
   /\ ~triangles[ev.k].doubleSided
   /\ BackFacing(triangles[ev.k], ev.ray)) => ~ev.out.ret

\* C5: for a double-sided triangle the culling return is never taken, and
\* the normal of a reported hit satisfies dot(normal, direction) <= 0: it is
\* the negated geometric normal exactly when the geometric normal points
\* along the ray.
C5_DoubleSided ==
  (ev.kind = "isect" /\ triangles[ev.k].doubleSided) =>
     /\ ev.out.exit # "cull"
     /\ ev.out.ret =>
          LET n0 == normalize(GeoNormal(triangles[ev.k]))
          IN  /\ FLe(dot(ev.out.hit.normal, ev.ray.direction), F0)
              /\ ev.out.hit.normal =
                   IF FGt(dot(n0, ev.ray.direction), F0) THEN VNeg(n0) ELSE n0
              /\ (ev.out.hit.normal # n0) = BackFacing(triangles[ev.k], ev.ray)

\* a double-sided triangle hit on its back face, the normal flipped
C5_Witness ==
  /\ ev.kind = "isect"
  /\ triangles[ev.k].doubleSided
  /\ ev.out.ret
  /\ BackFacing(triangles[ev.k], ev.ray)
  /\ ev.out.hit.normal = VNeg(normalize(GeoNormal(triangles[ev.k])))

\* the shadow ray of a hit: from position + normal * EPSILON toward the
\* light at (2, 5, 1)
ShadowRayOf(h) ==
  Ray(VAdd(h.position, VScale(h.normal, EPSILON)),
      normalize(VSub(IVec(2, 5, 1), h.position)))

\* triangle k is hit by the shadow ray strictly between the hit position
\* and the light
Occluder(k, h) ==
  /\ Probe(k, ShadowRayOf(h)).ret
  /\ FGt(Probe(k, ShadowRayOf(h)).hit.distance, F0)
  /\ FLt(Probe(k, ShadowRayOf(h)).hit.distance,
         length(VSub(IVec(2, 5, 1), h.position)))

\* C6: in a trace call that found a hit, the point is in shadow exactly when
\* some scene triangle is hit by the shadow ray at a distance strictly
\* between 0 and the distance to the light; in shadow the local shading of
\* the returned colour is the ambient term colour * 0.3 alone, otherwise it
\* is ambient + diffuse + specular.
C6_Shadow ==
  (ev.kind = "return" /\ ev.via = "shaded") =>
    LET f == ev.frame
        shadowed == \E k \in 1..Len(triangles) : Occluder(k, f.closestHit)
    IN  /\ f.shadowRay = ShadowRayOf(f.closestHit)
        /\ f.inShadow = shadowed
        /\ f.ambient = VScale(HitColor(f), T(3))
        /\ shadowed => ev.value = VAdd(f.ambient, f.reflection)
        /\ ~shadowed =>
             ev.value = VAdd(VAdd(VAdd(f.ambient, f.diffuse), f.specular),
                             f.reflection)

\* a shadowed hit whose diffuse term is not zero
C6_Witness ==
  /\ ev.kind = "return"
  /\ ev.via = "shaded"
  /\ ev.frame.inShadow
  /\ ev.frame.nShadow >= 2
  /\ ev.frame.diffuse # Vector3(F0, F0, F0)
  /\ ev.value = VAdd(ev.frame.ambient, ev.frame.reflection)

\* the trace call of frame f casts a reflection ray
Casts(f) == f.depth < 3 /\ FGt(HitColor(f).x, T(7))

\* C7: a trace call that found a hit makes a recursive call exactly when
\* depth < 3 and the red channel of the hit triangle exceeds 0.7: then it
\* makes one call, with depth + 1 and the reflected ray, and adds the
\* returned colour times 0.5; otherwise the reflection term is (0, 0, 0).
\* The returned colour is ambient + (shadow ? 0 : diffuse + specular) +
\* reflection, whatever the shadow test gave.
C7_Reflection ==
  /\ \A n \in 1..Len(stack) :
       /\ stack[n].nCalls <= 1
       /\ stack[n].pc \in {"reflecting", "combine"} =>
            stack[n].nCalls = 1 /\ Casts(stack[n])
       /\ n < Len(stack) =>
            /\ stack[n].pc = "reflecting"
            /\ stack[n + 1].depth = stack[n].depth + 1
            /\ stack[n + 1].ray =
                 Ray(VAdd(stack[n].closestHit.position,
                          VScale(stack[n].closestHit.normal, EPSILON)),
                     reflect(stack[n].ray.direction,
                             stack[n].closestHit.normal))
  /\ (ev.kind = "return" /\ stack # <<>>) =>
       top.pc = "combine" /\ top.child = ev.value
  /\ (ev.kind = "return" /\ ev.via = "shaded") =>
       /\ ev.frame.nCalls = (IF Casts(ev.frame) THEN 1 ELSE 0)
       /\ ev.frame.reflection =
            IF Casts(ev.frame) THEN VScale(ev.frame.child, T(5))
            ELSE Vector3(F0, F0, F0)
       /\ ev.value = Composite(ev.frame)

\* a shadowed hit on a shiny triangle: the reflection is added all the same
C7_Witness ==
  /\ ev.kind = "return"
  /\ ev.via = "shaded"
  /\ ev.frame.nCalls = 1
  /\ ev.frame.inShadow
  /\ ev.frame.reflection # Vector3(F0, F0, F0)
  /\ ev.frame.reflection = VScale(ev.frame.child, T(5))

\* C8 with 1 - u - v taken literally: for every reported hit 0 <= u <= 1,
\* 0 <= v <= 1 and 0 <= 1 - u - v <= 1, the distance is > EPSILON and the
\* position is pointAt(distance).
C8_Barycentric ==
  (ev.kind = "isect" /\ ev.out.ret) =>
     /\ FLe(F0, ev.out.u) /\ FLe(ev.out.u, F1)
     /\ FLe(F0, ev.out.v) /\ FLe(ev.out.v, F1)
     /\ FLe(F0, FSub(FSub(F1, ev.out.u), ev.out.v))
     /\ FLe(FSub(FSub(F1, ev.out.u), ev.out.v), F1)
     /\ FGt(ev.out.hit.distance, EPSILON)
     /\ ev.out.hit.position =
          VAdd(ev.ray.origin, VScale(ev.ray.direction, ev.out.hit.distance))

\* for every reported hit 0 <= u <= 1, 0 <= v <= 1 and u + v <= 1 with
\* the sum rounded to float as line 114 computes it (so 1 - (u + v) lies in
\* [0, 1]), the reported distance is the t of line 117 and > EPSILON, and
\* the reported position is origin + direction * distance.
C8_Accepted ==
  (ev.kind = "isect" /\ ev.out.ret) =>
     /\ ev.out.exit = "hit"
     /\ FLe(F0, ev.out.u) /\ FLe(ev.out.u, F1)
     /\ FLe(F0, ev.out.v) /\ FLe(ev.out.v, F1)
     /\ FLe(FAdd(ev.out.u, ev.out.v), F1)
     /\ FLe(F0, FSub(F1, FAdd(ev.out.u, ev.out.v)))
     /\ FLe(FSub(F1, FAdd(ev.out.u, ev.out.v)), F1)
     /\ ev.out.hit.distance = ev.out.t
     /\ FGt(ev.out.hit.distance, EPSILON)
     /\ ev.out.hit.position =
          VAdd(ev.ray.origin, VScale(ev.ray.direction, ev.out.hit.distance))

\* a candidate that fails a test of lines 108, 114 or 118 is not reported:
\* the call returns false and leaves the HitRecord as it was
C8_Rejections ==
  ev.kind = "isect" =>
     /\ (FLt(ev.out.u, F0) \/ FGt(ev.out.u, F1)) => ev.out.exit \in {"cull", "u"}
     /\ (ev.out.exit \notin {"cull", "u"}
           /\ (FLt(ev.out.v, F0) \/ FGt(FAdd(ev.out.u, ev.out.v), F1))) =>
          ev.out.exit = "v"
     /\ (ev.out.exit \in {"t", "hit"} /\ ~FGt(ev.out.t, EPSILON)) =>
          ev.out.exit = "t"
     /\ ev.out.exit # "hit" => ~ev.out.ret /\ ev.out.hit = HitRecord

\* C8 with the float sum: every reported hit has 0 <= u <= 1, 0 <= v <= 1,
\* float(u + v) <= 1, distance > EPSILON and position = pointAt(distance),
\* and no candidate with u outside [0, 1], v < 0, float(u + v) > 1 or
\* t <= EPSILON is reported.
C8_HitGeometry == C8_Accepted /\ C8_Rejections

\* a hit at the corner of a triangle where u = 1 and v > 0: the float sum
\* u + v is 1
C8_Witness ==
  /\ ev.kind = "isect"
  /\ ev.out.ret
  /\ ev.out.u = F1
  /\ FGt(ev.out.v, F0)
  /\ FAdd(ev.out.u, ev.out.v) = F1
  /\ FGt(ev.out.hit.distance, EPSILON)

\* the cells of the buffer are written in the order 0, 1, 2, ..., each by
\* the top-level trace call of its pixel, and read only when all are written
C9_Order ==
  /\ Len(hist.order) <= width * height
  /\ \A i \in 1..Len(hist.order) : hist.order[i] = i - 1
  /\ pcMain \in {"render", "tracing"} =>
       /\ Len(hist.order) = py * width + px
       /\ hist.reads = 0
  /\ pcMain = "tracing" =>
       /\ px < width /\ py < height
       /\ stack # <<>>
       /\ stack[1].depth = 0
       /\ stack[1].ray = computePrimRay(px, py, width, height, cameraPos)
  /\ (ev.kind = "return" /\ stack = <<>>) =>
       /\ ev.frame.depth = 0
       /\ ev.frame.ray =
            computePrimRay((Len(hist.order) - 1) % width,
                           (Len(hist.order) - 1) \div width,
                           width, height, cameraPos)
       /\ image[Len(hist.order) - 1] = ev.value
  /\ (hist.reads > 0 \/ pcMain \in {"output", "done"}) =>
       Len(hist.order) = width * height
  /\ hist.reads <= width * height
  /\ Len(hist.out) = hist.reads

\* C9: during a render every cell of the buffer is written exactly once, by
\* the top-level trace call for the primary ray of its pixel, in row-major
\* order (cell y * width + x); the writer reads the buffer only after all
\* width * height cells are written; and the render terminates.
C9_Render == []C9_Order /\ <>(pcMain = "done")

\* the render is over: every cell written once and read once
C9_Witness ==
  /\ pcMain = "done"
  /\ Len(hist.order) = width * height
  /\ hist.reads = width * height
  /\ \E c \in 1..(width * height - 1) : image[c] # image[0]

\* in the invocations caused by a call of trace with depth 0 the depth is
\* 0..3 (the depth of the n-th frame is n - 1), there are at most 4 of them,
\* none makes more than one recursive call and none returns by the guard
C10_Depths ==
  hist.d0 = 0 =>
     /\ hist.inv <= 4
     /\ Len(stack) <= 4
     /\ \A n \in 1..Len(stack) :
          /\ stack[n].depth = n - 1
          /\ stack[n].depth \in 0..3
          /\ stack[n].nCalls <= 1
     /\ ev.kind = "return" => ev.via # "depth" /\ ev.frame.depth \in 0..3

\* C10: every trace invocation reachable from a call with depth 0 has its
\* depth in 0..3, a call with depth 0 causes at most 4 invocations, the
\* depth > 3 guard is never taken along the chain, and the call terminates.
C10_Bounded == []C10_Depths /\ <>(pcMain = "returned")

\* a call with depth 0 that caused four invocations and has returned
C10_Witness ==
  /\ hist.d0 = 0
  /\ hist.inv = 4
  /\ pcMain = "returned"
  /\ ev.kind = "return"
  /\ ev.via = "shaded"

====
